---- MODULE Spec2Model ----
(***************************************************************************)
(* The config synchronization manager of space-cloud                        *)
(* (utils/syncman/operations.go): a node's SyncManager called by            *)
(* concurrent request handlers.  Every public method is a sequence of       *)
(* steps of the calling goroutine; the raft client, the memberlist, the     *)
(* admin validator and the HTTP leader are the environment.                 *)
(*                                                                          *)
(* StoreConfigToFile (sc/config/store.go) is modelled as a second state      *)
(* machine, StoreSpec, over the file system; FairSpec is the SyncManager    *)
(* under fair scheduling.                                                   *)
(*                                                                          *)
(* Go values are modelled as follows.  A pointer is a tuple: <<>> is nil    *)
(* and <<x>> points to x.  A byte slice is a tuple: <<>> is nil/empty and   *)
(* <<[json |-> v]>> is the JSON encoding of v.  A string that the code      *)
(* splits or concatenates is a tuple of tokens.                             *)
(***************************************************************************)
EXTENDS Integers, Sequences, FiniteSets, TLC

VARIABLES
    projectConfig,  \* s.projectConfig: the in-memory configuration document
    wHolder,        \* s.lock: the goroutine that owns the writer side (0: none)
    wActive,        \* s.lock: TRUE once the writer has the lock, readers drained
    readers,        \* s.lock: the goroutines holding a read lock
    raft,           \* s.raft: what VerifyLeader and Leader currently answer
    numNodes,       \* s.list: the memberlist's node count
    pc,             \* per goroutine: its position in the method it runs
    call,           \* per goroutine: the method and the arguments it was called with
    events,         \* per goroutine: the external calls made so far by the current call
    ret,            \* per goroutine: the value its return statement evaluated
    files,          \* the file system: the content of the file at each path
    store           \* the StoreConfigToFile call in progress, if any

\* The state of the SyncManager and its callers.
syncVars == <<projectConfig, wHolder, wActive, readers, raft, numNodes, pc, call, events, ret>>

\* The state StoreConfigToFile works on.
storeVars == <<files, store>>

vars == <<projectConfig, wHolder, wActive, readers, raft, numNodes, pc, call, events, ret,
          files, store>>

----------------------------------------------------------------------------
(* Bounds *)

\* The largest number of projects in a document.
MaxProjects == 2
\* The largest cluster size the memberlist reports.
MaxNodes == 2

(* Program constants *)

\* The fixed port of the forwarded request ("...:4122/v1/api/config/...").
ForwardPort == 4122
\* http.StatusOK
StatusOK == 200

\* The caller goroutines: two concurrent request handlers, which is what every
\* pairwise interleaving on the lock needs.
Procs == {1, 2}

----------------------------------------------------------------------------
(* Inputs *)

MutationOps ==
    {"SetStaticConfig", "AddInternalRoutes", "SetOperationModeConfig",
     "SetProjectConfig", "SetDeployConfig", "DeleteConfig"}

LockOps == MutationOps \cup {"GetConfig", "SetGlobalConfig"}

AllOps == LockOps \cup {"GetGlobalConfig", "GetClusterSize"}

\* The authorization token each request handler passes on.
TokenOf(p) == IF p = 1 THEN "tokA" ELSE "tokB"

ProjectIDs == {"p1", "p2"}

\* Projects held by documents: two of them share the identifier p1.
Projects == {[ID |-> "p1", body |-> "v1"], [ID |-> "p1", body |-> "v2"],
             [ID |-> "p2", body |-> "v1"]}

\* The payloads the mutation operations are called with.  The payload types
\* are defined outside this package; "unencodable" stands for a value for
\* which json.Marshal returns an error.
ProjectArgs == {[ID |-> "p1", body |-> "v1"], [ID |-> "p2", body |-> "v2"],
                [ID |-> "p1", body |-> "unencodable"]}
StaticArgs == {"static1", "unencodable"}
OperationArgs == {"op1", "unencodable"}
DeployArgs == {"deploy1", "unencodable"}

RECURSIVE SeqsUpTo(_, _)
\* The sequences of at most n different elements of S.
SeqsUpTo(S, n) ==
    IF n = 0 THEN {<<>>}
    ELSE LET shorter == SeqsUpTo(S, n - 1)
         IN  shorter \cup
             {Append(s, x) : <<s, x>> \in
                {<<t, y>> \in shorter \X S : \A i \in 1..Len(t) : t[i] # y}}

\* config.Config: the documents SetGlobalConfig may be given.  A document lists
\* each project value once; two of its projects may share an identifier.
Docs == {[Projects |-> ps] : ps \in SeqsUpTo(Projects, MaxProjects)}

ArgsOf(op) ==
    CASE op \in {"SetStaticConfig", "AddInternalRoutes"} -> StaticArgs
      [] op = "SetOperationModeConfig" -> OperationArgs
      [] op = "SetProjectConfig" -> ProjectArgs
      [] op = "SetDeployConfig" -> DeployArgs
      [] op = "DeleteConfig" -> ProjectIDs
      [] op = "GetConfig" -> ProjectIDs \cup {"p3"}
      [] op = "SetGlobalConfig" -> Docs
      [] OTHER -> {"none"}

\* What s.raft answers: whether VerifyLeader can succeed, and Leader().
RaftStates ==
    {[isLeader |-> TRUE, leader |-> <<"10.0.0.4", ":", "7000">>],
     [isLeader |-> FALSE, leader |-> <<"10.0.0.5", ":", "7000">>]}

\* What raft's Apply(...).Error() may answer ("" is nil).
ApplyResults == {"", "ErrNotLeader"}

NoCall == [op |-> "none", token |-> "none", arg |-> <<>>]
NoRet == [kind |-> "none", err |-> "", val |-> <<>>]

\* The HTTP outcomes of a forwarded request: a transport error, or a response
\* with a status and a body.  A body is <<>> when it is not a JSON object, and
\* <<m>> when it decodes to the object m; m.error is <<>> when the object has
\* no "error" key and <<e>> when it has one, e.isString telling its JSON type.
Responses ==
    {[transport |-> "dial tcp: connection refused", status |-> 0, body |-> <<>>],
     [transport |-> "", status |-> 200, body |-> <<[error |-> <<>>]>>],
     [transport |-> "", status |-> 200, body |-> <<>>],
     [transport |-> "", status |-> 404,
      body |-> <<[error |-> <<[isString |-> TRUE, val |-> "not found"]>>]>>],
     [transport |-> "", status |-> 500, body |-> <<[error |-> <<>>]>>],
     [transport |-> "", status |-> 500,
      body |-> <<[error |-> <<[isString |-> FALSE, val |-> "42"]>>]>>]}

----------------------------------------------------------------------------
(* Return values *)

Ok(v) == [kind |-> "ok", err |-> "", val |-> v]
Err(e) == [kind |-> "err", err |-> e, val |-> <<>>]
Panic(e) == [kind |-> "panic", err |-> e, val |-> <<>>]

\* errors.New("Please upgrade your instance")
PolicyError == "Please upgrade your instance"
\* errors.New("Given project is not present in state")
NotFoundError == "Given project is not present in state"

----------------------------------------------------------------------------
(* encoding/json as the code uses it *)

\* Whether json.Marshal can encode a payload of the given kind.
Encodable(kind, ptr) ==
    \/ ptr = <<>>
    \/ kind = "Project" /\ ptr[1].body # "unencodable"
    \/ kind # "Project" /\ ptr[1] # "unencodable"

\* data, err := json.Marshal(payload): nil data and an error when it fails.
Marshal(kind, ptr) ==
    IF Encodable(kind, ptr)
    THEN [data |-> <<[json |-> ptr]>>, err |-> ""]
    ELSE [data |-> <<>>, err |-> "json: unsupported value"]

\* data, err := json.Marshal(c) of a model.RaftCommand.
MarshalCommand(c) ==
    IF /\ Encodable("Static", c.Static) /\ Encodable("Operation", c.Operation)
       /\ Encodable("Project", c.Project) /\ Encodable("Deploy", c.Deploy)
    THEN [data |-> <<[json |-> c]>>, err |-> ""]
    ELSE [data |-> <<>>, err |-> "json: unsupported value"]

----------------------------------------------------------------------------
(* model.RaftCommand as each operation constructs it *)

EmptyCommand ==
    [Kind |-> "", Static |-> <<>>, Operation |-> <<>>, Project |-> <<>>,
     Deploy |-> <<>>, ID |-> ""]

\* Mutant: the SetStatic command also carries an identifier.
SetStaticCommandWithID(static) ==
    [EmptyCommand EXCEPT !.Kind = "RaftCommandSetStatic", !.Static = static,
                         !.ID = "p1"]

SetStaticCommand(static) ==
    [EmptyCommand EXCEPT !.Kind = "RaftCommandSetStatic", !.Static = static]

AddInternalRoutesCommand(static) ==
    [EmptyCommand EXCEPT !.Kind = "RaftCommandAddInternalRouteOperation",
                         !.Static = static]

SetOperationCommand(op) ==
    [EmptyCommand EXCEPT !.Kind = "RaftCommandSetOperation", !.Operation = op]

SetProjectCommand(project) ==
    [EmptyCommand EXCEPT !.Kind = "RaftCommandSet", !.Project = project,
                         !.ID = project[1].ID]

\* Mutant: the SetDeploy command is tagged with another operation's kind.
SetDeployCommandWrongKind(deploy) ==
    [EmptyCommand EXCEPT !.Kind = "RaftCommandSetStatic", !.Deploy = deploy]

SetDeployCommand(deploy) ==
    [EmptyCommand EXCEPT !.Kind = "RaftCommandSetDeploy", !.Deploy = deploy]

DeleteCommand(projectID) ==
    [EmptyCommand EXCEPT !.Kind = "RaftCommandDelete", !.ID = projectID]

\* The command the leader branch of the called operation builds.
CommandOf(c) ==
    CASE c.op = "SetStaticConfig" -> SetStaticCommand(c.arg)
      [] c.op = "AddInternalRoutes" -> AddInternalRoutesCommand(c.arg)
      [] c.op = "SetOperationModeConfig" -> SetOperationCommand(c.arg)
      [] c.op = "SetProjectConfig" -> SetProjectCommand(c.arg)
      [] c.op = "SetDeployConfig" -> SetDeployCommand(c.arg)
      [] c.op = "DeleteConfig" -> DeleteCommand(c.arg[1])

----------------------------------------------------------------------------
(* The forward branch *)

RECURSIVE SplitFirst(_)
\* strings.Split(addr, ":")[0]: the tokens before the first ":".
SplitFirst(addr) ==
    IF addr = <<>> \/ Head(addr) = ":" THEN <<>>
    ELSE <<Head(addr)>> \o SplitFirst(Tail(addr))

\* "http://" + addr + ":4122/v1/api/config/" + resource
ForwardURL(host, resource) ==
    [scheme |-> "http://", host |-> host, port |-> ForwardPort,
     path |-> <<"v1", "api", "config">> \o resource]

\* bytes.NewBuffer(data): a non-nil buffer, whatever data is.
NewBuffer(data) == <<data>>

PayloadKind(op) ==
    CASE op \in {"SetStaticConfig", "AddInternalRoutes"} -> "Static"
      [] op = "SetOperationModeConfig" -> "Operation"
      [] op = "SetProjectConfig" -> "Project"
      [] op = "SetDeployConfig" -> "Deploy"
      [] op = "DeleteConfig" -> "ID"

ResourceOf(c) ==
    CASE c.op = "SetStaticConfig" -> <<"static">>
      [] c.op = "AddInternalRoutes" -> <<"static", "internal">>
      [] c.op = "SetOperationModeConfig" -> <<"operation">>
      [] c.op = "SetProjectConfig" -> <<"projects">>
      [] c.op = "SetDeployConfig" -> <<"deploy">>
      [] c.op = "DeleteConfig" -> <<c.arg[1]>>

MethodOf(c) == IF c.op = "DeleteConfig" THEN "DELETE" ELSE "POST"

\* The buffer handed to makeRequest: the marshalled payload with the marshal
\* error dropped, and a nil *bytes.Buffer for DeleteConfig.
BodyOf(c) ==
    IF c.op = "DeleteConfig" THEN <<>>
    ELSE NewBuffer(Marshal(PayloadKind(c.op), c.arg).data)

\* The arguments of the makeRequest call of the not-leader branch.
ForwardArgs(c, leader) ==
    [method |-> MethodOf(c), token |-> c.token,
     url |-> ForwardURL(SplitFirst(leader), ResourceOf(c)), body |-> BodyOf(c)]

\* url.Parse inside http.NewRequest rejects a host with an unclosed "[".
ValidURL(url) == \A i \in 1..Len(url.host) : url.host[i] # "["

\* makeRequest up to the point the request is fired: http.NewRequest returns
\* an error for a URL it cannot parse, and dereferences a body that is a nil
\* *bytes.Buffer (a non-nil io.Reader) to read its length.
NewRequest(a) ==
    IF ~ValidURL(a.url) THEN Err("parse: invalid URL")
    ELSE IF a.body = <<>> THEN Panic("nil pointer dereference")
    ELSE Ok(<<[method |-> a.method, url |-> a.url,
               Authorization |-> <<"Bearer ", a.token>>, body |-> a.body[1]]>>)

\* makeRequest after client.Do: the transport error, the decode error, the
\* error message of a non-200 response (a type assertion that panics when the
\* "error" key is missing or no string), or nil.
Respond(resp) ==
    IF resp.transport # "" THEN Err(resp.transport)
    ELSE IF resp.body = <<>> THEN Err("json: cannot decode body")
    ELSE IF resp.status # StatusOK
         THEN LET e == resp.body[1].error
              IN  IF e # <<>> /\ e[1].isString THEN Err(e[1].val)
                  ELSE Panic("interface conversion")
         ELSE Ok(<<>>)

----------------------------------------------------------------------------
(* GetConfig's scan *)

RECURSIVE ScanProjectsLast(_, _)
\* Mutant: the scan keeps going and returns the last match.
ScanProjectsLast(projects, projectID) ==
    IF projects = <<>> THEN Err(NotFoundError)
    ELSE LET rest == ScanProjectsLast(Tail(projects), projectID)
         IN  IF rest.kind = "ok" THEN rest
             ELSE IF projectID = Head(projects).ID THEN Ok(<<Head(projects)>>)
             ELSE rest

RECURSIVE ScanProjects(_, _)
\* for _, p := range projects { if projectID == p.ID { return p, nil } }
ScanProjects(projects, projectID) ==
    IF projects = <<>> THEN Err(NotFoundError)
    ELSE IF projectID = Head(projects).ID THEN Ok(<<Head(projects)>>)
    ELSE ScanProjects(Tail(projects), projectID)

----------------------------------------------------------------------------
(* sc/config/store.go: StoreConfigToFile *)

\* The permission bits StoreConfigToFile passes to ioutil.WriteFile (0644).
FileMode == 420

\* The paths StoreConfigToFile is called with, as token sequences:
\* conf.yaml, conf.json, out.txt, conf.yml and conf.yaml.json.
StorePaths ==
    {<<"conf", ".yaml">>, <<"conf", ".json">>, <<"out", ".txt">>,
     <<"conf", ".yml">>, <<"conf", ".yaml", ".json">>}

\* The *Config values StoreConfigToFile is called with: nil, the documents of
\* at most one project, and a document holding a value the encoders cannot
\* encode.
StoreConfs ==
    {<<>>} \cup {<<d>> : d \in {e \in Docs : Len(e.Projects) <= 1}}
        \cup {<<[Projects |-> <<[ID |-> "p1", body |-> "unencodable"]>>]>>}

\* What a file may hold before the call: nothing written by this program.
OldContent == [enc |-> "other", val |-> <<>>]

\* What a file holds after a write that failed part-way.
PartialContent == [enc |-> "partial", val |-> <<>>]

\* An error value of StoreConfigToFile: a message and the path it names.
StoreErr(msg, path) == [kind |-> "err", err |-> [msg |-> msg, path |-> path]]
StoreOk == [kind |-> "ok", err |-> [msg |-> "", path |-> <<>>]]
StoreNoRet == [kind |-> "none", err |-> [msg |-> "", path |-> <<>>]]

StoreIdle ==
    [pc |-> "idle", conf |-> <<>>, path |-> <<>>, data |-> <<>>,
     before |-> <<>>, writes |-> <<>>, ret |-> StoreNoRet]

\* strings.HasSuffix(s, suffix)
HasSuffix(s, suffix) ==
    /\ Len(s) >= Len(suffix)
    /\ SubSeq(s, Len(s) - Len(suffix) + 1, Len(s)) = suffix

\* Mutant: every recognised path is encoded as JSON.
EncodingOfAlwaysJSON(path) ==
    IF HasSuffix(path, <<".yaml">>) THEN "json"
    ELSE IF HasSuffix(path, <<".json">>) THEN "json"
    ELSE "invalid"

\* The branch of the suffix test: yaml.Marshal, json.Marshal, or the
\* invalid-file-type error.
EncodingOf(path) ==
    IF HasSuffix(path, <<".yaml">>) THEN "yaml"
    ELSE IF HasSuffix(path, <<".json">>) THEN "json"
    ELSE "invalid"

\* Whether the encoders can encode the configuration.
ConfEncodable(conf) ==
    \/ conf = <<>>
    \/ \A i \in 1..Len(conf[1].Projects) : conf[1].Projects[i].body # "unencodable"

\* data, err = yaml.Marshal(conf) / json.Marshal(conf)
MarshalConf(enc, conf) ==
    IF ConfEncodable(conf)
    THEN [data |-> <<[enc |-> enc, val |-> conf]>>, err |-> ""]
    ELSE [data |-> <<>>, err |-> enc \o ": unsupported value"]

\* What ioutil.WriteFile may do: write everything, fail to open the file
\* (which leaves it alone), or fail after the file was created and truncated.
WriteOutcomes == {"written", "open failed", "write failed"}

----------------------------------------------------------------------------
(* The state machine *)

\* Mutant: SetStaticConfig does not take the lock.
EntryOfUnlockedSetStatic(op) ==
    CASE op = "SetStaticConfig" -> "VerifyLeader"
      [] op \in LockOps \ {"SetStaticConfig"} -> "Lock"
      [] op = "GetGlobalConfig" -> "RLock"
      [] op = "GetClusterSize" -> "NumNodes"

\* Mutant: GetGlobalConfig reads the document without the read lock.
EntryOfUnlockedRead(op) ==
    CASE op \in LockOps -> "Lock"
      [] op = "GetGlobalConfig" -> "ReadDoc"
      [] op = "GetClusterSize" -> "NumNodes"

\* Mutant: GetConfig scans the document without taking the lock.
EntryOfUnlockedGetConfig(op) ==
    CASE op = "GetConfig" -> "Scan"
      [] op \in LockOps \ {"GetConfig"} -> "Lock"
      [] op = "GetGlobalConfig" -> "RLock"
      [] op = "GetClusterSize" -> "NumNodes"

\* The first statement of each method.
EntryOf(op) ==
    CASE op \in LockOps -> "Lock"
      [] op = "GetGlobalConfig" -> "RLock"
      [] op = "GetClusterSize" -> "NumNodes"

\* Mutant: GetConfig asks for the lock again once it holds it.
AfterLockTwice(op) ==
    CASE op \in MutationOps -> "VerifyLeader"
      [] op = "GetConfig" -> "Lock"
      [] op = "SetGlobalConfig" -> "SetDoc"

\* The statement that follows s.lock.Lock() in each method.
AfterLock(op) ==
    CASE op \in MutationOps -> "VerifyLeader"
      [] op = "GetConfig" -> "Scan"
      [] op = "SetGlobalConfig" -> "SetDoc"

\* Mutant: the answer of the leadership check is ignored.
AfterVerifyLeaderIgnored(op, ok) ==
    IF op = "SetProjectConfig" THEN "Validate" ELSE "Apply"

\* Mutant: the leader branch of SetProjectConfig skips the validator.
AfterVerifyLeaderNoValidate(op, ok) ==
    IF ~ok THEN "Forward" ELSE "Apply"

\* The branch taken on the answer of s.raft.VerifyLeader().Error(): the forward
\* branch on an error, else the validator for SetProjectConfig and the command
\* for the others.
AfterVerifyLeader(op, ok) ==
    IF ~ok THEN "Forward"
    ELSE IF op = "SetProjectConfig" THEN "Validate"
    ELSE "Apply"

\* Mutant: SetGlobalConfig merges the given projects into the document.
MergedDoc(old, c) == [Projects |-> old.Projects \o c.Projects]

\* s.projectConfig = c: the document after SetGlobalConfig(c).
AssignedDoc(old, c) == c

\* Mutant: the size is derived from the document, not from the memberlist.
NumNodesFromDoc == Len(projectConfig.Projects) + 1

\* s.list.NumNodes()
NumNodesResult == numNodes

Init ==
    /\ projectConfig \in Docs
    /\ wHolder = 0
    /\ wActive = FALSE
    /\ readers = {}
    /\ raft \in RaftStates
    /\ numNodes \in 1..MaxNodes
    /\ pc = [p \in Procs |-> "idle"]
    /\ call = [p \in Procs |-> NoCall]
    /\ events = [p \in Procs |-> <<>>]
    /\ ret = [p \in Procs |-> NoRet]
    /\ files = [f \in StorePaths |-> <<>>]
    /\ store = StoreIdle

\* Goroutine p enters method op with argument arg.
CallOp(p, op, arg) ==
    /\ pc[p] = "idle"
    /\ call' = [call EXCEPT ![p] =
                  [op |-> op,
                   token |-> IF op \in MutationOps THEN TokenOf(p) ELSE "none",
                   arg |-> <<arg>>]]
    /\ pc' = [pc EXCEPT ![p] = EntryOf(op)]
    /\ UNCHANGED <<projectConfig, wHolder, wActive, readers, raft, numNodes, events, ret>>
    /\ UNCHANGED storeVars

\* A request handler calls a method of the SyncManager.
Call(p) == \E op \in AllOps : \E arg \in ArgsOf(op) : CallOp(p, op, arg)

\* s.lock.Lock(), first half: the goroutine becomes the one pending writer,
\* after which no new reader is admitted.
LockPending(p) ==
    /\ pc[p] = "Lock"
    /\ wHolder = 0
    /\ wHolder' = p
    /\ pc' = [pc EXCEPT ![p] = "LockDrain"]
    /\ UNCHANGED <<projectConfig, wActive, readers, raft, numNodes, call, events, ret>>
    /\ UNCHANGED storeVars

\* s.lock.Lock(), second half: the pending writer has the lock once the
\* readers admitted before it have left.
LockAcquire(p) ==
    /\ pc[p] = "LockDrain"
    /\ wHolder = p
    /\ readers = {}
    /\ wActive' = TRUE
    /\ pc' = [pc EXCEPT ![p] = AfterLock(call[p].op)]
    /\ events' = [events EXCEPT ![p] =
                    Append(@, [ev |-> "Lock",
                               doc |-> IF call[p].op = "SetGlobalConfig" THEN <<>>
                                       ELSE <<projectConfig>>])]
    /\ UNCHANGED <<projectConfig, wHolder, readers, raft, numNodes, call, ret>>
    /\ UNCHANGED storeVars

\* s.lock.RLock()
RLock(p) ==
    /\ pc[p] = "RLock"
    /\ wHolder = 0
    /\ readers' = readers \cup {p}
    /\ pc' = [pc EXCEPT ![p] = "ReadDoc"]
    /\ UNCHANGED <<projectConfig, wHolder, wActive, raft, numNodes, call, events, ret>>
    /\ UNCHANGED storeVars

\* if s.raft.VerifyLeader().Error() != nil { forward } else { validate / apply }
VerifyLeader(p) ==
    /\ pc[p] = "VerifyLeader"
    /\ \E ok \in (IF raft.isLeader THEN {TRUE, FALSE} ELSE {FALSE}) :
         /\ events' = [events EXCEPT ![p] =
                         Append(@, [ev |-> "VerifyLeader", ok |-> ok])]
         /\ pc' = [pc EXCEPT ![p] = AfterVerifyLeader(call[p].op, ok)]
    /\ UNCHANGED <<projectConfig, wHolder, wActive, readers, raft, numNodes, call, ret>>
    /\ UNCHANGED storeVars

\* The not-leader branch up to client.Do: marshal the payload, read the
\* leader's address, call makeRequest, which builds the request and fires it.
Forward(p) ==
    /\ pc[p] = "Forward"
    /\ LET a == ForwardArgs(call[p], raft.leader)
           r == NewRequest(a)
       IN  IF r.kind = "ok"
           THEN /\ events' = [events EXCEPT ![p] =
                                @ \o <<[ev |-> "makeRequest", args |-> a,
                                        leader |-> raft.leader],
                                       [ev |-> "Do", req |-> r.val[1]]>>]
                /\ pc' = [pc EXCEPT ![p] = "AwaitResponse"]
                /\ ret' = ret
           ELSE /\ events' = [events EXCEPT ![p] =
                                Append(@, [ev |-> "makeRequest", args |-> a,
                                           leader |-> raft.leader])]
                /\ pc' = [pc EXCEPT ![p] = "Return"]
                /\ ret' = [ret EXCEPT ![p] = r]
    /\ UNCHANGED <<projectConfig, wHolder, wActive, readers, raft, numNodes, call>>
    /\ UNCHANGED storeVars

\* client.Do returns and makeRequest turns the outcome into its result.
ForwardResponse(p) ==
    /\ pc[p] = "AwaitResponse"
    /\ \E resp \in Responses :
         /\ events' = [events EXCEPT ![p] = Append(@, [ev |-> "Response", resp |-> resp])]
         /\ ret' = [ret EXCEPT ![p] = Respond(resp)]
    /\ pc' = [pc EXCEPT ![p] = "Return"]
    /\ UNCHANGED <<projectConfig, wHolder, wActive, readers, raft, numNodes, call>>
    /\ UNCHANGED storeVars

\* if !s.adminMan.ValidateSyncOperation(s.projectConfig, project) { return error }
Validate(p) ==
    /\ pc[p] = "Validate"
    /\ \E ok \in BOOLEAN :
         /\ events' = [events EXCEPT ![p] =
                         Append(@, [ev |-> "ValidateSyncOperation", cur |-> projectConfig,
                                    proposed |-> call[p].arg, ok |-> ok])]
         /\ IF ok
            THEN /\ pc' = [pc EXCEPT ![p] = "Apply"]
                 /\ ret' = ret
            ELSE /\ pc' = [pc EXCEPT ![p] = "Return"]
                 /\ ret' = [ret EXCEPT ![p] = Err(PolicyError)]
    /\ UNCHANGED <<projectConfig, wHolder, wActive, readers, raft, numNodes, call>>
    /\ UNCHANGED storeVars

\* Whether the operation checks the error of marshalling its command.
ChecksMarshalError(op) == op = "SetProjectConfig"

\* Mutant: the leader branch looks at leadership again before it submits, and
\* forwards when the node is no longer the leader.
ApplyRechecksLeadership(p) ==
    /\ pc[p] = "Apply"
    /\ LET m == MarshalCommand(CommandOf(call[p]))
       IN  IF ~raft.isLeader
           THEN /\ pc' = [pc EXCEPT ![p] = "Forward"]
                /\ ret' = ret
                /\ events' = events
           ELSE /\ pc' = [pc EXCEPT ![p] = "AwaitApply"]
                /\ ret' = ret
                /\ events' = [events EXCEPT ![p] =
                                Append(@, [ev |-> "Apply", data |-> m.data, timeout |-> 0,
                                           isLeader |-> raft.isLeader])]
    /\ UNCHANGED <<projectConfig, wHolder, wActive, readers, raft, numNodes, call>>
    /\ UNCHANGED storeVars

\* The leader branch up to the Apply call: build the command, marshal it,
\* return the marshal error where the code checks it, and submit the data.
\* (The event also records whether the node was still the leader then.)
Apply(p) ==
    /\ pc[p] = "Apply"
    /\ LET m == MarshalCommand(CommandOf(call[p]))
       IN  IF ChecksMarshalError(call[p].op) /\ m.err # ""
           THEN /\ pc' = [pc EXCEPT ![p] = "Return"]
                /\ ret' = [ret EXCEPT ![p] = Err(m.err)]
                /\ events' = events
           ELSE /\ pc' = [pc EXCEPT ![p] = "AwaitApply"]
                /\ ret' = ret
                /\ events' = [events EXCEPT ![p] =
                                Append(@, [ev |-> "Apply", data |-> m.data, timeout |-> 0,
                                           isLeader |-> raft.isLeader])]
    /\ UNCHANGED <<projectConfig, wHolder, wActive, readers, raft, numNodes, call>>
    /\ UNCHANGED storeVars

\* return s.raft.Apply(data, 0).Error()
ApplyReturn(p) ==
    /\ pc[p] = "AwaitApply"
    /\ \E e \in ApplyResults :
         /\ events' = [events EXCEPT ![p] = Append(@, [ev |-> "ApplyResult", err |-> e])]
         /\ ret' = [ret EXCEPT ![p] = IF e = "" THEN Ok(<<>>) ELSE Err(e)]
    /\ pc' = [pc EXCEPT ![p] = "Return"]
    /\ UNCHANGED <<projectConfig, wHolder, wActive, readers, raft, numNodes, call>>
    /\ UNCHANGED storeVars

\* GetConfig's loop over s.projectConfig.Projects
Scan(p) ==
    /\ pc[p] = "Scan"
    /\ ret' = [ret EXCEPT ![p] = ScanProjects(projectConfig.Projects, call[p].arg[1])]
    /\ pc' = [pc EXCEPT ![p] = "Return"]
    /\ UNCHANGED <<projectConfig, wHolder, wActive, readers, raft, numNodes, call, events>>
    /\ UNCHANGED storeVars

\* s.projectConfig = c
SetDoc(p) ==
    /\ pc[p] = "SetDoc"
    /\ projectConfig' = AssignedDoc(projectConfig, call[p].arg[1])
    /\ ret' = [ret EXCEPT ![p] = Ok(<<>>)]
    /\ pc' = [pc EXCEPT ![p] = "Return"]
    /\ UNCHANGED <<wHolder, wActive, readers, raft, numNodes, call, events>>
    /\ UNCHANGED storeVars

\* return s.projectConfig
ReadDoc(p) ==
    /\ pc[p] = "ReadDoc"
    /\ ret' = [ret EXCEPT ![p] = Ok(<<projectConfig>>)]
    /\ pc' = [pc EXCEPT ![p] = "Return"]
    /\ UNCHANGED <<projectConfig, wHolder, wActive, readers, raft, numNodes, call, events>>
    /\ UNCHANGED storeVars

\* return s.list.NumNodes()
NumNodes(p) ==
    /\ pc[p] = "NumNodes"
    /\ ret' = [ret EXCEPT ![p] = Ok(<<NumNodesResult>>)]
    /\ events' = [events EXCEPT ![p] =
                    Append(@, [ev |-> "NumNodes",
                               lockedBy |-> IF wActive THEN wHolder ELSE 0,
                               holderBlocked |->
                                   /\ wActive
                                   /\ pc[wHolder] \in {"AwaitResponse", "AwaitApply"}])]
    /\ pc' = [pc EXCEPT ![p] = "Return"]
    /\ UNCHANGED <<projectConfig, wHolder, wActive, readers, raft, numNodes, call>>
    /\ UNCHANGED storeVars

\* Mutant: the lock is released by a statement before each return instead of
\* a deferred call, so a panic leaves it held.
ReturnWithoutDeferredUnlock(p) ==
    /\ pc[p] = "Return"
    /\ wHolder' = IF wHolder = p /\ ret[p].kind # "panic" THEN 0 ELSE wHolder
    /\ wActive' = IF wHolder = p /\ ret[p].kind # "panic" THEN FALSE ELSE wActive
    /\ readers' = readers \ {p}
    /\ pc' = [pc EXCEPT ![p] = "idle"]
    /\ call' = [call EXCEPT ![p] = NoCall]
    /\ events' = [events EXCEPT ![p] = <<>>]
    /\ ret' = [ret EXCEPT ![p] = NoRet]
    /\ UNCHANGED <<projectConfig, raft, numNodes>>
    /\ UNCHANGED storeVars

\* The method returns to its caller: the deferred (or explicit) Unlock or
\* RUnlock runs, also when the method panicked.
Return(p) ==
    /\ pc[p] = "Return"
    /\ wHolder' = IF wHolder = p THEN 0 ELSE wHolder
    /\ wActive' = IF wHolder = p THEN FALSE ELSE wActive
    /\ readers' = readers \ {p}
    /\ pc' = [pc EXCEPT ![p] = "idle"]
    /\ call' = [call EXCEPT ![p] = NoCall]
    /\ events' = [events EXCEPT ![p] = <<>>]
    /\ ret' = [ret EXCEPT ![p] = NoRet]
    /\ UNCHANGED <<projectConfig, raft, numNodes>>
    /\ UNCHANGED storeVars

\* The raft cluster elects another leader, or loses it.
LeadershipChange ==
    /\ raft' \in RaftStates \ {raft}
    /\ UNCHANGED <<projectConfig, wHolder, wActive, readers, numNodes, pc, call, events, ret>>
    /\ UNCHANGED storeVars

\* A node joins or leaves the memberlist.
MembershipChange ==
    /\ numNodes' \in (1..MaxNodes) \ {numNodes}
    /\ UNCHANGED <<projectConfig, wHolder, wActive, readers, raft, pc, call, events, ret>>
    /\ UNCHANGED storeVars

Next ==
    \/ \E p \in Procs : Call(p)
    \/ \E p \in Procs : LockPending(p)
    \/ \E p \in Procs : LockAcquire(p)
    \/ \E p \in Procs : RLock(p)
    \/ \E p \in Procs : VerifyLeader(p)
    \/ \E p \in Procs : Forward(p)
    \/ \E p \in Procs : ForwardResponse(p)
    \/ \E p \in Procs : Validate(p)
    \/ \E p \in Procs : Apply(p)
    \/ \E p \in Procs : ApplyReturn(p)
    \/ \E p \in Procs : Scan(p)
    \/ \E p \in Procs : SetDoc(p)
    \/ \E p \in Procs : ReadDoc(p)
    \/ \E p \in Procs : NumNodes(p)
    \/ \E p \in Procs : Return(p)
    \/ LeadershipChange
    \/ MembershipChange

Spec == Init /\ [][Next]_vars

----------------------------------------------------------------------------
(* The SyncManager under fair scheduling *)

\* The arguments of the calls made under the fair specification: for each
\* method one argument per path through it (a project that serializes and one
\* that does not, an identifier that is present and one that is absent).
FairArgsOf(op) ==
    CASE op \in {"SetStaticConfig", "AddInternalRoutes"} -> {"static1"}
      [] op = "SetOperationModeConfig" -> {"op1"}
      [] op = "SetProjectConfig" ->
            {[ID |-> "p1", body |-> "v1"], [ID |-> "p1", body |-> "unencodable"]}
      [] op = "SetDeployConfig" -> {"deploy1"}
      [] op = "DeleteConfig" -> {"p1"}
      [] op = "GetConfig" -> {"p1", "p3"}
      [] op = "SetGlobalConfig" ->
            {[Projects |-> <<>>], [Projects |-> <<[ID |-> "p1", body |-> "v1"]>>]}
      [] OTHER -> {"none"}

FairInit ==
    /\ Init
    /\ projectConfig \in FairArgsOf("SetGlobalConfig")

\* A request handler calls a method with one of the arguments above.
FairCall(p) == \E op \in AllOps : \E arg \in FairArgsOf(op) : CallOp(p, op, arg)

FairNext ==
    \/ \E p \in Procs : FairCall(p)
    \/ \E p \in Procs : LockPending(p)
    \/ \E p \in Procs : LockAcquire(p)
    \/ \E p \in Procs : RLock(p)
    \/ \E p \in Procs : VerifyLeader(p)
    \/ \E p \in Procs : Forward(p)
    \/ \E p \in Procs : ForwardResponse(p)
    \/ \E p \in Procs : Validate(p)
    \/ \E p \in Procs : Apply(p)
    \/ \E p \in Procs : ApplyReturn(p)
    \/ \E p \in Procs : Scan(p)
    \/ \E p \in Procs : SetDoc(p)
    \/ \E p \in Procs : ReadDoc(p)
    \/ \E p \in Procs : NumNodes(p)
    \/ \E p \in Procs : Return(p)
    \/ LeadershipChange
    \/ MembershipChange

\* The goroutine scheduler runs every goroutine that can take a step.
Scheduling(p) ==
    /\ WF_vars(LockAcquire(p)) /\ WF_vars(VerifyLeader(p)) /\ WF_vars(Forward(p))
    /\ WF_vars(Validate(p)) /\ WF_vars(Apply(p)) /\ WF_vars(Scan(p))
    /\ WF_vars(SetDoc(p)) /\ WF_vars(ReadDoc(p)) /\ WF_vars(NumNodes(p))
    /\ WF_vars(Return(p))

\* sync.RWMutex does not starve a waiter: a goroutine blocked in Lock or
\* RLock gets the lock after finitely many releases.
LockFairness(p) == SF_vars(LockPending(p)) /\ SF_vars(RLock(p))

\* Every forwarded request and every Apply call eventually returns.
ExternalCallsReturn(p) == WF_vars(ForwardResponse(p)) /\ WF_vars(ApplyReturn(p))

FairSpec ==
    /\ FairInit /\ [][FairNext]_vars
    /\ \A p \in Procs : Scheduling(p) /\ LockFairness(p) /\ ExternalCallsReturn(p)

----------------------------------------------------------------------------
(* StoreConfigToFile as a state machine of its own *)

StoreInit ==
    /\ projectConfig = [Projects |-> <<>>]
    /\ wHolder = 0
    /\ wActive = FALSE
    /\ readers = {}
    /\ raft \in {r \in RaftStates : r.isLeader}
    /\ numNodes = 1
    /\ pc = [p \in Procs |-> "idle"]
    /\ call = [p \in Procs |-> NoCall]
    /\ events = [p \in Procs |-> <<>>]
    /\ ret = [p \in Procs |-> NoRet]
    /\ files \in [StorePaths -> {<<>>, <<OldContent>>}]
    /\ store = StoreIdle

\* StoreConfigToFile(conf, path) up to its WriteFile call: the suffix test,
\* the encoder it selects, and the return of the invalid-file-type error or
\* of the encoder's error.
StoreConfigToFile(conf, path) ==
    /\ store.pc = "idle"
    /\ LET enc == EncodingOf(path)
           m == MarshalConf(enc, conf)
           c == [StoreIdle EXCEPT !.conf = conf, !.path = path, !.before = <<files>>]
       IN  store' =
             IF enc = "invalid"
             THEN [c EXCEPT !.pc = "Return",
                            !.ret = StoreErr("Invalid config file type provided", path)]
             ELSE IF m.err # ""
             THEN [c EXCEPT !.pc = "Return", !.ret = StoreErr(m.err, <<>>)]
             ELSE [c EXCEPT !.pc = "WriteFile", !.data = m.data]
    /\ UNCHANGED files
    /\ UNCHANGED syncVars

\* return ioutil.WriteFile(path, data, 0644)
WriteFile ==
    /\ store.pc = "WriteFile"
    /\ \E o \in WriteOutcomes :
         /\ files' = CASE o = "written" -> [files EXCEPT ![store.path] = store.data]
                       [] o = "open failed" -> files
                       [] o = "write failed" ->
                            [files EXCEPT ![store.path] = <<PartialContent>>]
         /\ store' = [store EXCEPT
                        !.pc = "Return",
                        !.writes = Append(@, [path |-> store.path, data |-> store.data,
                                              perm |-> FileMode, outcome |-> o]),
                        !.ret = IF o = "written" THEN StoreOk
                                ELSE StoreErr(o, store.path)]
    /\ UNCHANGED syncVars

\* StoreConfigToFile hands its result to the caller.
StoreReturn ==
    /\ store.pc = "Return"
    /\ store' = StoreIdle
    /\ UNCHANGED files
    /\ UNCHANGED syncVars

StoreNext ==
    \/ \E conf \in StoreConfs : \E path \in StorePaths : StoreConfigToFile(conf, path)
    \/ WriteFile
    \/ StoreReturn

StoreSpec == StoreInit /\ [][StoreNext]_vars

----------------------------------------------------------------------------
(* Reading a call's record of what it has done *)

\* The events of kind k of the call goroutine p is running, in order.
EventsOf(p, k) == SelectSeq(events[p], LAMBDA e : e.ev = k)

Count(p, k) == Len(EventsOf(p, k))

\* The positions of the events of kind k.
IndexOf(p, k) == {i \in 1..Len(events[p]) : events[p][i].ev = k}

IsMutation(p) == call[p].op \in MutationOps

\* The document as it was when the call acquired the lock (<<>> before that,
\* and for SetGlobalConfig, which replaces it).
DocAtLock(p) ==
    IF Count(p, "Lock") = 0 THEN <<>> ELSE EventsOf(p, "Lock")[1].doc

\* The call's leadership check has been made / reported not-leader / leader.
Checked(p) == Count(p, "VerifyLeader") > 0
NotLeader(p) == Checked(p) /\ ~EventsOf(p, "VerifyLeader")[1].ok
Leader(p) == Checked(p) /\ EventsOf(p, "VerifyLeader")[1].ok

\* The positions of a mutation method between its leadership check and its return.
BranchPcs == {"VerifyLeader", "Forward", "AwaitResponse", "Validate", "Apply",
              "AwaitApply"}

----------------------------------------------------------------------------
(* C1 *)

\* C1: a mutation call whose leadership check reported not-leader (a failed
\* query included) makes one leadership check and one forward (makeRequest)
\* call and nothing else: no Apply, no validator call, and the document is
\* the one it found when it took the lock.
C1_NotLeaderOnlyForwards ==
    \A p \in Procs :
        (IsMutation(p) /\ NotLeader(p)) =>
            /\ Count(p, "Apply") = 0
            /\ Count(p, "ValidateSyncOperation") = 0
            /\ Count(p, "VerifyLeader") = 1
            /\ pc[p] \in {"Forward", "AwaitResponse", "Return"}
            /\ Count(p, "makeRequest") = (IF pc[p] = "Forward" THEN 0 ELSE 1)
            /\ <<projectConfig>> = DocAtLock(p)

\* A SetProjectConfig call whose leadership check reported an error has
\* returned from its forward with success, on a node that is the leader.
C1_Witness ==
    \E p \in Procs :
        /\ call[p].op = "SetProjectConfig" /\ pc[p] = "Return"
        /\ NotLeader(p) /\ raft.isLeader
        /\ Count(p, "makeRequest") = 1 /\ ret[p].kind = "ok"

----------------------------------------------------------------------------
(* C2 *)

\* C2: only SetProjectConfig consults the validator, at most once, with the
\* current document and the proposed project; every Apply of a
\* SetProjectConfig call comes after an accepting validation, and a rejection
\* ends the call with the policy error, no Apply and no forward.
C2_ValidateBeforeApply ==
    \A p \in Procs :
        /\ call[p].op # "SetProjectConfig" => Count(p, "ValidateSyncOperation") = 0
        /\ call[p].op = "SetProjectConfig" =>
            /\ Count(p, "ValidateSyncOperation") <= 1
            /\ \A i \in IndexOf(p, "ValidateSyncOperation") :
                 /\ <<events[p][i].cur>> = DocAtLock(p)
                 /\ events[p][i].cur = projectConfig
                 /\ events[p][i].proposed = call[p].arg
                 /\ ~events[p][i].ok =>
                      /\ pc[p] = "Return" /\ ret[p] = Err(PolicyError)
                      /\ Count(p, "Apply") = 0 /\ Count(p, "makeRequest") = 0
            /\ \A j \in IndexOf(p, "Apply") :
                 \E i \in IndexOf(p, "ValidateSyncOperation") :
                     i < j /\ events[p][i].ok
            /\ (Leader(p) /\ pc[p] \in {"Apply", "AwaitApply", "Return"}) =>
                 Count(p, "ValidateSyncOperation") = 1

\* A SetProjectConfig call on the leader has been validated and has then
\* submitted its command.
C2_Witness ==
    \E p \in Procs :
        /\ call[p].op = "SetProjectConfig" /\ pc[p] = "AwaitApply"
        /\ \E i \in IndexOf(p, "ValidateSyncOperation") :
             \E j \in IndexOf(p, "Apply") : i < j /\ events[p][i].ok

----------------------------------------------------------------------------
(* C3 *)

\* C3: while a mutation call is between its leadership check and its return,
\* no other mutation call has made, or is placed to make, a leadership
\* check, a forward, a validation or an Apply.
C3_NoInterleaving ==
    \A p, q \in Procs :
        (p # q /\ IsMutation(p) /\ IsMutation(q) /\ Checked(p)) =>
            /\ ~Checked(q)
            /\ pc[q] \notin BranchPcs
            /\ Count(q, "makeRequest") + Count(q, "Apply")
                 + Count(q, "ValidateSyncOperation") = 0

\* One mutation call waits for its forwarded request while another mutation
\* call waits for the lock.
C3_Witness ==
    \E p, q \in Procs :
        /\ p # q /\ IsMutation(p) /\ IsMutation(q)
        /\ pc[p] = "AwaitResponse" /\ pc[q] = "Lock"

----------------------------------------------------------------------------
(* C4 *)

\* Whether goroutine p is between acquiring and releasing s.lock.
InSection(p) ==
    \/ call[p].op \in LockOps
         /\ pc[p] \in BranchPcs \cup {"Scan", "SetDoc", "Return"}
    \/ call[p].op = "GetGlobalConfig" /\ pc[p] \in {"ReadDoc", "Return"}

\* C4 as claimed: at most one call among the mutation operations, GetConfig,
\* GetGlobalConfig and SetGlobalConfig is inside its lock-protected section.
C4_AtMostOneInSection == Cardinality({p \in Procs : InSection(p)}) <= 1

\* C4 as amended: two calls are inside their lock-protected sections together
\* only when both are GetGlobalConfig, which takes the lock shared.
C4_OnlyReadersShare ==
    \A p, q \in Procs :
        (p # q /\ InSection(p) /\ InSection(q)) =>
            call[p].op = "GetGlobalConfig" /\ call[q].op = "GetGlobalConfig"

\* A mutation call is waiting for Apply inside its section while a
\* GetGlobalConfig call is held at RLock.
C4_Witness ==
    \E p, q \in Procs :
        /\ p # q /\ IsMutation(p) /\ pc[p] = "AwaitApply"
        /\ call[q].op = "GetGlobalConfig" /\ pc[q] = "RLock"

----------------------------------------------------------------------------
(* C5 *)

\* C5: the document changes only in the assignment of SetGlobalConfig, which
\* replaces it by the given document, and never in a step of a mutation
\* call; a mutation call that holds the lock sees the document it found when
\* it took the lock, on every path up to its return.
C5_OnlySetGlobalConfigWrites ==
    /\ [](\A q \in Procs :
            (IsMutation(q) /\ Count(q, "Lock") > 0) => DocAtLock(q) = <<projectConfig>>)
    /\ [][projectConfig' # projectConfig =>
            \E p \in Procs :
                /\ call[p].op = "SetGlobalConfig"
                /\ pc[p] = "SetDoc" /\ pc'[p] = "Return"
                /\ projectConfig' = call[p].arg[1]
                /\ \A q \in Procs :
                     IsMutation(q) => pc'[q] = pc[q] /\ events'[q] = events[q]]_vars

\* A mutation call is about to return after Apply failed, and a
\* SetGlobalConfig call with another document is waiting for the lock.
C5_Witness ==
    \E p, q \in Procs :
        /\ IsMutation(p) /\ pc[p] = "Return" /\ ret[p].kind = "err"
        /\ Count(p, "Apply") = 1 /\ DocAtLock(p) = <<projectConfig>>
        /\ call[q].op = "SetGlobalConfig" /\ pc[q] = "Lock"
        /\ call[q].arg[1] # projectConfig

----------------------------------------------------------------------------
(* C6 *)

\* The positions of the projects of the document with the given identifier.
Matches(id) ==
    {i \in 1..Len(projectConfig.Projects) : projectConfig.Projects[i].ID = id}

\* C6: GetConfig returns the project at the least position of the document
\* whose identifier is the requested one, the not-found error when there is
\* none, and leaves the document as it found it.  (The result is a function
\* of the document and the identifier alone, so two calls with no document
\* change between them return the same.)
C6_GetConfigFirstMatch ==
    \A p \in Procs :
        (call[p].op = "GetConfig" /\ pc[p] = "Return") =>
            LET m == Matches(call[p].arg[1])
            IN  /\ DocAtLock(p) = <<projectConfig>>
                /\ m = {} => ret[p] = Err(NotFoundError)
                /\ m # {} =>
                     /\ ret[p].kind = "ok"
                     /\ \E i \in m :
                          /\ \A j \in m : i <= j
                          /\ ret[p].val = <<projectConfig.Projects[i]>>

\* GetConfig returns the first of two projects that carry the requested
\* identifier and differ otherwise.
C6_Witness ==
    \E p \in Procs :
        /\ call[p].op = "GetConfig" /\ pc[p] = "Return"
        /\ Cardinality(Matches(call[p].arg[1])) = 2
        /\ ret[p].kind = "ok"
        /\ \E i \in Matches(call[p].arg[1]) :
             i > 1 /\ ret[p].val # <<projectConfig.Projects[i]>>

----------------------------------------------------------------------------
(* C7 *)

\* C7: a GetClusterSize call is never at a lock statement, its one step can
\* be taken whatever the state of the lock, and that step returns the
\* memberlist's count of that moment and changes neither the document nor
\* the lock.
C7_ClusterSizeLockFree ==
    /\ [](\A p \in Procs :
            call[p].op = "GetClusterSize" =>
                /\ pc[p] \in {"NumNodes", "Return"}
                /\ pc[p] = "NumNodes" => ENABLED NumNodes(p))
    /\ [][\A p \in Procs :
            (call[p].op = "GetClusterSize" /\ pc[p] = "NumNodes" /\ pc'[p] # pc[p]) =>
                /\ pc'[p] = "Return"
                /\ ret'[p] = Ok(<<numNodes>>)
                /\ UNCHANGED <<projectConfig, wHolder, wActive, readers, numNodes>>]_vars

\* GetClusterSize has returned the count while another call held the lock,
\* blocked in its forward or its Apply, and still holds it.
C7_Witness ==
    \E p, q \in Procs :
        /\ call[p].op = "GetClusterSize" /\ pc[p] = "Return"
        /\ events[p][1].lockedBy = q /\ events[p][1].holderBlocked
        /\ wHolder = q /\ wActive /\ pc[q] \in {"AwaitResponse", "AwaitApply"}
        /\ ret[p] = Ok(<<numNodes>>)

----------------------------------------------------------------------------
(* C8 *)

\* The Kind each operation is to submit.
KindFor(op) ==
    CASE op = "SetStaticConfig" -> "RaftCommandSetStatic"
      [] op = "AddInternalRoutes" -> "RaftCommandAddInternalRouteOperation"
      [] op = "SetOperationModeConfig" -> "RaftCommandSetOperation"
      [] op = "SetProjectConfig" -> "RaftCommandSet"
      [] op = "SetDeployConfig" -> "RaftCommandSetDeploy"
      [] op = "DeleteConfig" -> "RaftCommandDelete"

\* Whether command c carries the argument of call cl as the payload of cl's
\* operation.
CarriesPayload(c, cl) ==
    CASE cl.op \in {"SetStaticConfig", "AddInternalRoutes"} -> c.Static = cl.arg
      [] cl.op = "SetOperationModeConfig" -> c.Operation = cl.arg
      [] cl.op = "SetProjectConfig" -> c.Project = cl.arg
      [] cl.op = "SetDeployConfig" -> c.Deploy = cl.arg
      [] cl.op = "DeleteConfig" -> c.ID = cl.arg[1]

\* The call is on the leader path, past the validator where there is one.
OnApplyPath(p) ==
    /\ IsMutation(p) /\ Leader(p)
    /\ pc[p] \in {"AwaitApply", "Return"}
    /\ call[p].op = "SetProjectConfig" =>
         \E i \in IndexOf(p, "ValidateSyncOperation") : events[p][i].ok

\* The call has submitted exactly one command, of its operation's Kind, with
\* its argument as payload and without the token, and returns what Apply
\* answered.
SubmitsItsCommand(p) ==
    /\ Count(p, "Apply") = 1
    /\ LET data == EventsOf(p, "Apply")[1].data
       IN  /\ data # <<>>
           /\ DOMAIN data[1].json =
                {"Kind", "Static", "Operation", "Project", "Deploy", "ID"}
           /\ data[1].json.Kind = KindFor(call[p].op)
           /\ CarriesPayload(data[1].json, call[p])
           /\ call[p].token \notin {data[1].json.Kind, data[1].json.ID}
    /\ pc[p] = "Return" =>
         /\ Count(p, "ApplyResult") = 1
         /\ ret[p].kind = "ok" <=> EventsOf(p, "ApplyResult")[1].err = ""
         /\ ret[p].kind \in {"ok", "err"}
         /\ ret[p].err = EventsOf(p, "ApplyResult")[1].err

ArgSerializes(p) ==
    /\ call[p].op = "SetProjectConfig" => call[p].arg[1].body # "unencodable"
    /\ call[p].op \in MutationOps \ {"SetProjectConfig", "DeleteConfig"} =>
         call[p].arg[1] # "unencodable"

----------------------------------------------------------------------------
(* C9 *)

\* The commands decoded from the data the calls in progress have submitted.
Submitted ==
    UNION {{events[p][i].data[1].json :
                i \in {j \in IndexOf(p, "Apply") : events[p][j].data # <<>>}} :
           p \in Procs}

\* The payload fields of a command that are populated.
Populated(c) ==
    {f \in {"Static", "Operation", "Project", "Deploy"} : c[f] # <<>>}
        \cup (IF c.ID # "" THEN {"ID"} ELSE {})

\* The payload field that goes with a Kind.
FieldFor(kind) ==
    CASE kind \in {"RaftCommandSetStatic", "RaftCommandAddInternalRouteOperation"}
           -> "Static"
      [] kind = "RaftCommandSetOperation" -> "Operation"
      [] kind = "RaftCommandSet" -> "Project"
      [] kind = "RaftCommandSetDeploy" -> "Deploy"
      [] kind = "RaftCommandDelete" -> "ID"

\* C9 as claimed: every submitted command has exactly one payload field
\* populated, the one that goes with its Kind.
C9_OnePayloadField == \A c \in Submitted : Populated(c) = {FieldFor(c.Kind)}

\* C9 as amended: of Static, Operation, Project and Deploy a submitted command
\* sets the one that goes with its Kind and no other (none for Delete); its
\* ID is the given identifier for Delete, the project's own identifier for
\* SetProject, and empty otherwise.
C9_PayloadMatchesKind ==
    \A c \in Submitted :
        /\ Populated(c) \ {"ID"} = {FieldFor(c.Kind)} \ {"ID"}
        /\ c.ID = (CASE c.Kind = "RaftCommandDelete" -> c.ID
                     [] c.Kind = "RaftCommandSet" -> c.Project[1].ID
                     [] OTHER -> "")
        /\ c.Kind = "RaftCommandDelete" => c.ID # ""

\* A SetProjectConfig call has submitted a command with both its Project and
\* its ID populated.
C9_Witness ==
    \E c \in Submitted :
        c.Kind = "RaftCommandSet" /\ Populated(c) = {"Project", "ID"}

----------------------------------------------------------------------------
(* C10 *)

\* The leader address up to its first ":" (all of it when it has none).
HostPart(addr) ==
    LET colons == {i \in 1..Len(addr) : addr[i] = ":"}
    IN  IF colons = {} THEN addr
        ELSE SubSeq(addr, 1, (CHOOSE i \in colons : \A j \in colons : i <= j) - 1)

\* The resource path of each operation's forwarded request.
PathFor(cl) ==
    <<"v1", "api", "config">> \o
        (CASE cl.op = "SetStaticConfig" -> <<"static">>
           [] cl.op = "AddInternalRoutes" -> <<"static", "internal">>
           [] cl.op = "SetOperationModeConfig" -> <<"operation">>
           [] cl.op = "SetProjectConfig" -> <<"projects">>
           [] cl.op = "SetDeployConfig" -> <<"deploy">>
           [] cl.op = "DeleteConfig" -> <<cl.arg[1]>>)

\* C10 as claimed: a mutation call that returns from the not-leader path has
\* sent one request, to the host part of the leader address on port 4122
\* with its operation's path and method, the caller's token and the raw
\* payload; a 200 response makes it return success, and a non-200
\* response with a string error makes it return that error.
C10_ForwardedRequest ==
    \A p \in Procs :
        (IsMutation(p) /\ NotLeader(p) /\ pc[p] = "Return") =>
            /\ Count(p, "makeRequest") = 1
            /\ Count(p, "Do") = 1
            /\ LET req == EventsOf(p, "Do")[1].req
                   leader == EventsOf(p, "makeRequest")[1].leader
               IN  /\ req.method =
                        (IF call[p].op = "DeleteConfig" THEN "DELETE" ELSE "POST")
                   /\ req.url.host = HostPart(leader)
                   /\ req.url.port = 4122
                   /\ req.url.path = PathFor(call[p])
                   /\ req.Authorization = <<"Bearer ", call[p].token>>
                   /\ req.body = (IF call[p].op = "DeleteConfig" THEN <<>>
                                  ELSE <<[json |-> call[p].arg]>>)
            /\ Count(p, "Response") = 1
            /\ LET resp == EventsOf(p, "Response")[1].resp
               IN  /\ (resp.transport = "" /\ resp.status = 200) => ret[p] = Ok(<<>>)
                   /\ (/\ resp.transport = "" /\ resp.status # 200
                       /\ resp.body # <<>> /\ resp.body[1].error # <<>>
                       /\ resp.body[1].error[1].isString)
                        => ret[p] = Err(resp.body[1].error[1].val)

----------------------------------------------------------------------------
(* C11 *)

\* The forwarded request failed: no response came back, or the response is
\* not a 200.
ForwardFailed(resp) == resp.transport # "" \/ resp.status # StatusOK

\* C11 as claimed: a mutation call whose forwarded request failed (transport
\* error, non-200 response, non-200 response whose body has no string
\* "error") ends by returning a non-nil error value.
C11_ForwardFailureReturnsError ==
    \A p \in Procs :
        (/\ IsMutation(p) /\ pc[p] = "Return" /\ Count(p, "Response") = 1
         /\ ForwardFailed(EventsOf(p, "Response")[1].resp))
            => ret[p].kind = "err" /\ ret[p].err # ""

----------------------------------------------------------------------------
(* C12 *)

\* The path ends in the given extension.
EndsIn(path, ext) == path # <<>> /\ path[Len(path)] = ext

\* The encoding a path's suffix selects.
SuffixEncoding(path) == IF EndsIn(path, ".yaml") THEN "yaml" ELSE "json"

\* The call in progress was given a path that ends in .yaml or .json.
Recognised == EndsIn(store.path, ".yaml") \/ EndsIn(store.path, ".json")

\* The file system is as the call found it and the call wrote nothing.
NothingWritten == store.writes = <<>> /\ store.before = <<files>>

\* What the call is to leave in the file at its path.
Encoded == <<[enc |-> SuffixEncoding(store.path), val |-> store.conf]>>

\* The parts of the claim about a path with another suffix and about a
\* configuration that does not serialize.
RejectsWithoutWriting ==
    /\ ~Recognised => store.ret.kind = "err" /\ NothingWritten
    /\ (Recognised /\ ~ConfEncodable(store.conf)) =>
         /\ store.ret.kind = "err" /\ NothingWritten
         /\ store.ret.err.msg \notin WriteOutcomes

\* C12 as claimed: a returning StoreConfigToFile call with a path that ends in
\* neither .yaml nor .json returns an error and has left the file system as
\* it was; with a .yaml or .json path and a configuration that serializes,
\* the file at the path holds exactly the encoding the suffix selects; a
\* serialization failure is returned and nothing is written.
C12_StoreConfigToFile ==
    store.pc = "Return" =>
        /\ RejectsWithoutWriting
        /\ (Recognised /\ ConfEncodable(store.conf)) => files[store.path] = Encoded

\* C12 as amended: as claimed, except that with a recognised path and a
\* configuration that serializes the call makes one WriteFile call with the
\* path and the encoding the suffix selects and returns what WriteFile
\* returns; the file holds exactly that encoding, and every other file is as
\* before, when WriteFile succeeds.
C12_StoreWritesWhenWriteSucceeds ==
    store.pc = "Return" =>
        /\ RejectsWithoutWriting
        /\ (Recognised /\ ConfEncodable(store.conf)) =>
             /\ Len(store.writes) = 1
             /\ store.writes[1].path = store.path
             /\ store.writes[1].data = Encoded
             /\ store.ret.kind = "ok" <=> store.writes[1].outcome = "written"
             /\ store.ret.kind = "ok" =>
                  /\ files[store.path] = Encoded
                  /\ \A f \in StorePaths \ {store.path} : files[f] = store.before[1][f]
             /\ store.ret.kind = "err" =>
                  /\ store.ret.err.msg = store.writes[1].outcome
                  /\ \A f \in StorePaths \ {store.path} : files[f] = store.before[1][f]

\* StoreConfigToFile has replaced what conf.yaml.json held by the JSON
\* encoding of a configuration with a project.
C12_Witness ==
    /\ store.pc = "Return" /\ store.ret.kind = "ok"
    /\ store.path = <<"conf", ".yaml", ".json">>
    /\ store.conf # <<>> /\ store.conf[1].Projects # <<>>
    /\ store.before[1][store.path] = <<OldContent>>
    /\ files[store.path] = <<[enc |-> "json", val |-> store.conf]>>

----------------------------------------------------------------------------
(* C13 *)

\* The project identifiers of a document are pairwise distinct.
UniqueIDs(doc) ==
    \A i, j \in 1..Len(doc.Projects) :
        i # j => doc.Projects[i].ID # doc.Projects[j].ID

\* C13 as claimed: the project identifiers of the in-memory document stay
\* pairwise distinct through every step of SetGlobalConfig and of the
\* mutation operations: no step takes a document whose identifiers are
\* pairwise distinct to one in which two projects share an identifier.
C13_ProjectIDsDistinct ==
    [][UniqueIDs(projectConfig) => UniqueIDs(projectConfig')]_vars

----------------------------------------------------------------------------
(* C14 *)

\* C14 as claimed: a mutation call on the leader path (past the validator
\* where there is one) whose RaftCommand json.Marshal fails to serialize
\* returns that serialization error to its caller.
C14_SerializationFailurePropagated ==
    \A p \in Procs :
        (OnApplyPath(p) /\ ~ArgSerializes(p) /\ pc[p] = "Return") =>
            ret[p] = Err(MarshalCommand(CommandOf(call[p])).err)

----------------------------------------------------------------------------
(* C15 *)

\* Goroutine p is inside a method that has asked for the write lock and has
\* not yet released it.
UsesWriteLock(p) ==
    /\ call[p].op \in LockOps
    /\ pc[p] \in {"LockDrain", "Scan", "SetDoc", "Return"} \cup BranchPcs

\* Goroutine p is inside GetGlobalConfig with the read lock taken.
UsesReadLock(p) ==
    call[p].op = "GetGlobalConfig" /\ pc[p] \in {"ReadDoc", "Return"}

\* C15: the lock is owned exactly by the calls in progress that took it: the
\* writer side by the one call between its Lock and its return, the reader
\* side by the GetGlobalConfig calls between RLock and return, so with no
\* call in progress the lock is free; every return, whatever the outcome
\* (success, error or panic, on every path), gives up what the call held;
\* and a call waiting for the lock can take it as soon as no other call
\* uses it.
C15_LockReleasedOnEveryExit ==
    /\ [](/\ \A p \in Procs : wHolder = p <=> UsesWriteLock(p)
          /\ readers = {p \in Procs : UsesReadLock(p)}
          /\ wActive => wHolder # 0
          /\ (\A p \in Procs : pc[p] = "idle") =>
                wHolder = 0 /\ ~wActive /\ readers = {}
          /\ \A q \in Procs :
               (\A p \in Procs \ {q} : ~UsesWriteLock(p) /\ ~UsesReadLock(p)) =>
                   /\ pc[q] = "Lock" => ENABLED LockPending(q)
                   /\ pc[q] = "LockDrain" => ENABLED LockAcquire(q)
                   /\ pc[q] = "RLock" => ENABLED RLock(q))
    /\ [][\A p \in Procs :
            (pc[p] = "Return" /\ pc'[p] # "Return") =>
                /\ pc'[p] = "idle"
                /\ wHolder' # p /\ p \notin readers'
                /\ wHolder = p => wHolder' = 0 /\ ~wActive']_vars

\* A DeleteConfig call is about to return by a panic while it holds the
\* lock, and another mutation call is waiting for the lock.
C15_Witness ==
    \E p, q \in Procs :
        /\ call[p].op = "DeleteConfig" /\ pc[p] = "Return" /\ ret[p].kind = "panic"
        /\ wHolder = p /\ wActive
        /\ IsMutation(q) /\ pc[q] = "Lock"

----------------------------------------------------------------------------
(* C16 *)

\* Every mutation call in progress has queried leadership at most once and
\* has made at most one external submission: one forward (one makeRequest
\* call, one request fired, one response) or one Apply, never both.
SingleAttempt ==
    \A p \in Procs :
        IsMutation(p) =>
            /\ Count(p, "VerifyLeader") <= 1
            /\ Count(p, "makeRequest") + Count(p, "Apply") <= 1
            /\ Count(p, "Do") <= Count(p, "makeRequest")
            /\ Count(p, "Response") <= Count(p, "Do")
            /\ Count(p, "ApplyResult") <= Count(p, "Apply")
            /\ Count(p, "ValidateSyncOperation") <= 1

\* The call in progress has met a failure: its forwarded request failed, the
\* validator rejected it, its command did not serialize, or Apply answered
\* an error.
Failed(p) ==
    \/ \E i \in IndexOf(p, "Response") : ForwardFailed(events[p][i].resp)
    \/ \E i \in IndexOf(p, "ValidateSyncOperation") : ~events[p][i].ok
    \/ OnApplyPath(p) /\ ~ArgSerializes(p)
    \/ \E i \in IndexOf(p, "ApplyResult") : events[p][i].err # ""

\* C16 as claimed: a mutation call queries leadership once and makes at most
\* one external submission, a forward or an Apply, never both and never a
\* second attempt, and a call that met a failure returns an error to its
\* caller.
C16_NoRetryFailuresReturned ==
    /\ SingleAttempt
    /\ \A p \in Procs :
         (IsMutation(p) /\ pc[p] = "Return" /\ Failed(p)) => ret[p].kind = "err"

----------------------------------------------------------------------------
(* C17 *)

\* The call's leadership check succeeded and the node was no longer the
\* leader when the call submitted to Apply.
StaleAtApply(p) ==
    /\ IsMutation(p) /\ Leader(p)
    /\ Count(p, "Apply") = 1
    /\ ~EventsOf(p, "Apply")[1].isLeader

\* What a call returns for the answer e of Apply(...).Error().
ResultOfApply(e) == IF e = "" THEN Ok(<<>>) ELSE Err(e)

\* C17: a mutation call whose leadership check succeeded never checks
\* leadership again and never forwards, and the document stays as the call
\* found it; while it holds the lock before its Apply, leadership can still
\* change, and its Apply step can be taken whoever the leader is.  A call
\* that reaches its Apply after leadership was lost submits, with no timeout,
\* the bytes json.Marshal gave for its command (the command itself when it
\* serializes) and returns exactly what Apply answers.
C17_StaleLeaderStillApplies ==
    /\ [](\A p \in Procs :
            /\ (IsMutation(p) /\ Leader(p)) =>
                 /\ Count(p, "VerifyLeader") = 1
                 /\ Count(p, "makeRequest") = 0
                 /\ pc[p] \in {"Validate", "Apply", "AwaitApply", "Return"}
                 /\ DocAtLock(p) = <<projectConfig>>
                 /\ pc[p] \in {"Validate", "Apply"} =>
                      wHolder = p /\ wActive /\ ENABLED LeadershipChange
                 /\ pc[p] = "Apply" => ENABLED Apply(p)
            /\ StaleAtApply(p) =>
                 /\ pc[p] \in {"AwaitApply", "Return"}
                 /\ EventsOf(p, "Apply")[1].timeout = 0
                 /\ EventsOf(p, "Apply")[1].data = MarshalCommand(CommandOf(call[p])).data
                 /\ ArgSerializes(p) =>
                      EventsOf(p, "Apply")[1].data = <<[json |-> CommandOf(call[p])]>>
                 /\ pc[p] = "Return" =>
                      /\ Count(p, "ApplyResult") = 1
                      /\ ret[p] = ResultOfApply(EventsOf(p, "ApplyResult")[1].err))
    /\ [][\A p \in Procs :
            (/\ IsMutation(p) /\ Leader(p) /\ pc[p] = "Apply"
             /\ ~raft.isLeader /\ pc'[p] # pc[p]) =>
                /\ projectConfig' = projectConfig
                /\ \/ /\ pc'[p] = "AwaitApply"
                      /\ Len(events'[p]) = Len(events[p]) + 1
                      /\ events'[p][Len(events'[p])].ev = "Apply"
                      /\ ~events'[p][Len(events'[p])].isLeader
                   \/ /\ call[p].op = "SetProjectConfig" /\ ~ArgSerializes(p)
                      /\ pc'[p] = "Return" /\ events'[p] = events[p]
                      /\ ret'[p] = Err(MarshalCommand(CommandOf(call[p])).err)]_vars

\* A SetDeployConfig call passed its leadership check, the node lost
\* leadership before the call's Apply, and the call returns the rejection
\* the log engine answered, still holding the lock.
C17_Witness ==
    \E p \in Procs :
        /\ call[p].op = "SetDeployConfig" /\ StaleAtApply(p) /\ ArgSerializes(p)
        /\ pc[p] = "Return" /\ ret[p] = Err("ErrNotLeader")
        /\ wHolder = p /\ wActive

----------------------------------------------------------------------------
(* C18 *)

\* The mutation call of goroutine p is blocked in its external call: it
\* waits for the response to its forwarded request or for Apply to return.
Waiting(p) == IsMutation(p) /\ pc[p] \in {"AwaitResponse", "AwaitApply"}

\* Goroutine q runs one of the methods that take the lock.
TakesLock(q) == call[q].op \in LockOps \cup {"GetGlobalConfig"}

\* C18: while a mutation call waits for its forward round trip or for Apply,
\* it holds the lock exclusively, and every other call of a mutation
\* operation, GetConfig, GetGlobalConfig or SetGlobalConfig in progress is
\* stopped at its lock statement with no result and with no step it can
\* take; no step taken while the call waits moves any of them.
C18_LockHeldAcrossBlockingCall ==
    /\ [](\A p, q \in Procs :
            (p # q /\ Waiting(p)) =>
                /\ wHolder = p /\ wActive /\ readers = {}
                /\ TakesLock(q) =>
                     /\ pc[q] \in {"Lock", "RLock"}
                     /\ ret[q] = NoRet /\ events[q] = <<>>
                     /\ ~ENABLED LockPending(q)
                     /\ ~ENABLED LockAcquire(q)
                     /\ ~ENABLED RLock(q)
                     /\ ~ENABLED Return(q))
    /\ [][\A p, q \in Procs :
            (p # q /\ Waiting(p) /\ TakesLock(q)) =>
                pc'[q] = pc[q] /\ ret'[q] = ret[q] /\ call'[q] = call[q]]_vars

\* A mutation call waits for the response to its forwarded request while a
\* SetGlobalConfig call is stopped at its Lock.
C18_Witness ==
    \E p, q \in Procs :
        /\ p # q /\ Waiting(p) /\ pc[p] = "AwaitResponse"
        /\ call[q].op = "SetGlobalConfig" /\ pc[q] = "Lock"
        /\ wHolder = p /\ wActive

----------------------------------------------------------------------------
(* C19 *)

\* C19: no call asks for the lock while it holds it or takes it a second
\* time; and, with fair scheduling of the callers, a lock that does not
\* starve its waiters, and forwarded requests and Apply calls that return,
\* every call of a SyncManager method that has been made comes to its end.
C19_EveryCallReturns ==
    /\ [](\A p \in Procs :
            /\ Count(p, "Lock") <= 1
            /\ pc[p] = "Lock" => wHolder # p /\ Count(p, "Lock") = 0
            /\ pc[p] = "LockDrain" => ~wActive /\ Count(p, "Lock") = 0
            /\ pc[p] = "RLock" => wHolder # p /\ p \notin readers)
    /\ \A p \in Procs : (pc[p] # "idle") ~> (pc[p] = "idle")

\* A writer has announced itself and waits for a GetGlobalConfig call that
\* holds the read lock, and that call has yet to read the document.
C19_Witness ==
    \E p, q \in Procs :
        /\ p # q /\ pc[p] = "LockDrain" /\ wHolder = p /\ ~wActive
        /\ call[q].op = "GetGlobalConfig" /\ pc[q] = "ReadDoc" /\ q \in readers

====
